---- MODULE Spec2Model ----
(***************************************************************************)
(* selfspy-rs: the capture-and-persistence pipeline.                       *)
(*   selfspy-core/src/encryption.rs  Encryptor (Argon2 key, AES-256-GCM)   *)
(*   selfspy-core/src/db.rs          Database  (SQLite: four tables)       *)
(*   selfspy-core/src/platform/*.rs  PlatformTracker (window, event queue) *)
(*   selfspy-core/src/monitor.rs     ActivityMonitor (start / stop / flush)*)
(*                                                                         *)
(* Strings are modelled as sequences of characters, a KeyPress carries a   *)
(* one-character string named by a unique key number, and byte strings are *)
(* sequences of integers in 0..255.  Window geometry (x, y, width, height) *)
(* is carried by no decision of the code and is left out of the rows.      *)
(***************************************************************************)
EXTENDS Integers, Sequences, FiniteSets, TLC

\* ------------------------------------------------------------------ bounds

\* Input events the producer may emit in one run.
MaxEvents == 2
\* Iterations of the loop of start() in one run.
MaxTicks == 2
\* Random values (nonces, salts) are drawn from 0..MaxRandom.
MaxRandom == 0
\* Plaintexts of the Encryptor specification have at most MaxPlain bytes.
MaxPlain == 2
\* Direct store calls of the store specification.
MaxCalls == 3
\* direct callers of the Encryptor: OsRng yields one of MaxNonce + 1 nonces
MaxNonce == 1
\* an Encryptor constructed later by a direct caller: OsRng yields one of
\* MaxSalt + 1 salts
MaxSalt == 1
\* direct callers of the store insert at most MaxRows rows in all
MaxRows == 5

\* ------------------------------------------------------------ option values

None == [some |-> FALSE]
Some(v) == [some |-> TRUE, val |-> v]
IsSome(o) == o.some

\* Result<T>: Ok(v) or Err.
Ok(v) == [ok |-> TRUE, val |-> v]
Err == [ok |-> FALSE]

RECURSIVE SumSeq(_)
SumSeq(s) == IF s = <<>> THEN 0 ELSE Head(s) + SumSeq(Tail(s))

RECURSIVE Flatten(_)
Flatten(ss) == IF ss = <<>> THEN <<>> ELSE Head(ss) \o Flatten(Tail(ss))

\* --------------------------------------------------------------- Encryptor

\* encryption.rs:32  let mut nonce_bytes = [0u8; 12];
NonceLen == 12
\* The authentication tag AES-256-GCM appends to the ciphertext.
TagLen == 16

\* A 96-bit nonce as OsRng fills it: twelve bytes, here one of MaxRandom + 1.
NonceBytes(n) == [i \in 1..NonceLen |-> IF i = NonceLen THEN n % 256 ELSE 0]
Nonces == {NonceBytes(n) : n \in 0..MaxRandom}

\* Argon2 over the passphrase and the salt: the derived AES key, here a
\* number that differs when the passphrase or the salt differs.
DeriveKeyIgnoresSalt(password, salt) == 1 + password * (MaxRandom + MaxSalt + 1)
DeriveKey(password, salt) == 1 + password * (MaxRandom + MaxSalt + 1) + salt

\* The AES-CTR key stream byte at position i under (key, nonce).
KeyStream(key, nonce, i) == (key * 31 + SumSeq(nonce) * 7 + i) % 256

\* The GCM tag over (key, nonce, ciphertext): every ciphertext byte enters
\* with an odd weight, so changing one byte changes every tag byte.
TagOf(key, nonce, ct) ==
    LET w == SumSeq([i \in 1..Len(ct) |-> (2 * i + 1) * ct[i]])
    IN  [j \in 1..TagLen |-> (key * 17 + SumSeq(nonce) * 3 + w + Len(ct) + j) % 256]

\* cipher.encrypt(nonce, plaintext): ciphertext followed by the tag.
AeadEncrypt(key, nonce, plaintext) ==
    LET ct == [i \in 1..Len(plaintext) |->
                  (plaintext[i] + KeyStream(key, nonce, i)) % 256]
    IN  ct \o TagOf(key, nonce, ct)

\* cipher.decrypt(nonce, encrypted): Err unless the tag verifies.
AeadDecryptNoVerify(key, nonce, encrypted) ==
    IF Len(encrypted) < TagLen THEN Err
    ELSE LET n  == Len(encrypted) - TagLen
             ct == SubSeq(encrypted, 1, n)
         IN  Ok([i \in 1..n |-> (ct[i] - KeyStream(key, nonce, i) + 256) % 256])
AeadDecrypt(key, nonce, encrypted) ==
    IF Len(encrypted) < TagLen THEN Err
    ELSE LET n  == Len(encrypted) - TagLen
             ct == SubSeq(encrypted, 1, n)
             tg == SubSeq(encrypted, n + 1, Len(encrypted))
         IN  IF tg # TagOf(key, nonce, ct) THEN Err
             ELSE Ok([i \in 1..n |-> (ct[i] - KeyStream(key, nonce, i) + 256) % 256])

\* Encryptor::encrypt with the nonce OsRng produced: nonce || ciphertext || tag.
EncryptFixedNonce(key, nonce, plaintext) ==
    NonceBytes(0) \o AeadEncrypt(key, NonceBytes(0), plaintext)
EncryptDropsNonce(key, nonce, plaintext) == AeadEncrypt(key, nonce, plaintext)
Encrypt(key, nonce, plaintext) == nonce \o AeadEncrypt(key, nonce, plaintext)

\* Encryptor::decrypt.
DecryptShortAsEmpty(key, payload) ==
    IF Len(payload) < NonceLen THEN Ok(<<>>)
    ELSE AeadDecrypt(key, SubSeq(payload, 1, NonceLen),
                     SubSeq(payload, NonceLen + 1, Len(payload)))
Decrypt(key, payload) ==
    IF Len(payload) < NonceLen THEN Err
    ELSE AeadDecrypt(key, SubSeq(payload, 1, NonceLen),
                     SubSeq(payload, NonceLen + 1, Len(payload)))

\* ------------------------------------------------------------- Event Store

\* A NULL column.
Null == "NULL"

\* AUTOINCREMENT: rows are never deleted, so the next id is the row count + 1.
NextId(table) == Len(table) + 1

ProcessIdOf(processes, name) ==
    LET i == CHOOSE i \in 1..Len(processes) : processes[i].name = name
    IN  processes[i].id

HasProcess(processes, name) == \E i \in 1..Len(processes) : processes[i].name = name

\* Database::insert_process: INSERT OR IGNORE, then SELECT id when no row was
\* added.  Returns the table and the id.
InsertProcessAlways(processes, name, bundle_id) ==
    [table |-> Append(processes, [id |-> NextId(processes), name |-> name,
                                  bundle_id |-> bundle_id]),
     id |-> NextId(processes)]
InsertProcessReplaces(processes, name, bundle_id) ==
    IF HasProcess(processes, name)
    THEN [table |-> [i \in 1..Len(processes) |->
                        IF processes[i].name = name
                        THEN [processes[i] EXCEPT !.bundle_id = bundle_id]
                        ELSE processes[i]],
          id |-> ProcessIdOf(processes, name)]
    ELSE [table |-> Append(processes, [id |-> NextId(processes), name |-> name,
                                       bundle_id |-> bundle_id]),
          id |-> NextId(processes)]
InsertProcess(processes, name, bundle_id) ==
    IF HasProcess(processes, name)
    THEN [table |-> processes, id |-> ProcessIdOf(processes, name)]
    ELSE [table |-> Append(processes, [id |-> NextId(processes), name |-> name,
                                       bundle_id |-> bundle_id]),
          id |-> NextId(processes)]

\* Database::insert_window.
InsertWindowWrongProcess(windows, process_id, title) ==
    [table |-> Append(windows, [id |-> NextId(windows), process_id |-> process_id + 1,
                                title |-> title]),
     id |-> NextId(windows)]
InsertWindow(windows, process_id, title) ==
    [table |-> Append(windows, [id |-> NextId(windows), process_id |-> process_id,
                                title |-> title]),
     id |-> NextId(windows)]

\* Database::insert_keys.
InsertKeys(keys, window_id, encrypted_keys, key_count) ==
    Append(keys, [id |-> NextId(keys), window_id |-> window_id,
                  encrypted_keys |-> encrypted_keys, key_count |-> key_count])

\* Database::insert_click.
InsertClick(clicks, window_id, x, y, button, double_click) ==
    Append(clicks, [id |-> NextId(clicks), window_id |-> window_id, x |-> x, y |-> y,
                    button |-> button, double_click |-> double_click])

\* FOREIGN KEY (col) REFERENCES parent(id): the insert fails unless a parent
\* row has that id.
ForeignKeyIgnored(parent, id) == TRUE
ForeignKeyOk(parent, id) == \E i \in 1..Len(parent) : parent[i].id = id

\* SUM over a column: NULL over no rows.
SqlSum(column) == IF column = <<>> THEN None ELSE Some(SumSeq(column))

\* COALESCE(v, d)
CoalesceNothing(v, d) == IF v = None THEN -1 ELSE v.val
Coalesce(v, d) == IF v = None THEN d ELSE v.val

\* SELECT COUNT(*) FROM table
CountRows(table) == Len(table)

\* COUNT(*) of the group of process p in processes JOIN windows
JoinCount(windows, p) ==
    Cardinality({i \in 1..Len(windows) : windows[i].process_id = p.id})

\* The most-active query: the name of a group of the join with the greatest
\* COUNT(*), any of them on a tie; no row when the join is empty.
MostActiveLeast(processes, windows) ==
    LET groups == {i \in 1..Len(processes) : JoinCount(windows, processes[i]) > 0}
    IN  IF groups = {} THEN {None}
        ELSE {Some(processes[i].name) : i \in
                 {g \in groups : \A h \in groups :
                     JoinCount(windows, processes[g]) <= JoinCount(windows, processes[h])}}
MostActiveProcess(processes, windows) ==
    LET groups == {i \in 1..Len(processes) : JoinCount(windows, processes[i]) > 0}
    IN  IF groups = {} THEN {None}
        ELSE {Some(processes[i].name) : i \in
                 {g \in groups : \A h \in groups :
                     JoinCount(windows, processes[g]) >= JoinCount(windows, processes[h])}}

\* Database::get_stats with no writer between its queries: the ActivityStats
\* it may return.
GetStats(processes, windows, keys, clicks) ==
    {[total_keystrokes |->
          Coalesce(SqlSum([i \in 1..Len(keys) |-> keys[i].key_count]), 0),
      total_clicks |-> CountRows(clicks),
      total_windows |-> CountRows(windows),
      total_processes |-> CountRows(processes),
      session_duration |-> 0,
      most_active_process |-> m,
      most_active_window |-> None] : m \in MostActiveProcess(processes, windows)}

\* ---------------------------------------------------------------- platform

\* Config::default: exclude_apps.
ExcludeApps == {"1Password", "Bitwarden", "KeePass"}

\* The WindowInfo values get_active_window may report: two applications and an
\* excluded one.
WindowInfos ==
    { [process_name |-> "Chrome",    window_title |-> "t1",    bundle_id |-> "com.google.Chrome"],
      [process_name |-> "Terminal",  window_title |-> "t2",    bundle_id |-> Null],
      [process_name |-> "Bitwarden", window_title |-> "vault", bundle_id |-> Null] }

\* InputEvent.  A KeyPress carries a one-character string, named by its number.
\* MouseMove and MouseScroll take the arm of the monitor that KeyRelease takes.
KeyPress(k) == [type |-> "KeyPress", key |-> k]
KeyRelease(k) == [type |-> "KeyRelease", key |-> k]
MouseClick(x, y, button) == [type |-> "MouseClick", x |-> x, y |-> y, button |-> button]

\* MouseButton::as_str.
ButtonStr(button) ==
    CASE button = "Left" -> "left" [] button = "Right" -> "right" [] OTHER -> "middle"

\* The UTF-8 bytes of the character of key k: odd keys are ASCII letters (one
\* byte), even keys are accented letters (two bytes).
Utf8(k) == IF k % 2 = 1 THEN <<96 + (k % 26)>> ELSE <<195, 160 + (k % 32)>>

\* String::as_bytes of a buffer of key characters.
AsBytes(buffer) == Flatten([i \in 1..Len(buffer) |-> Utf8(buffer[i])])

\* ---------------------------------------------------------------- state

VARIABLES
    \* Config and ActivityMonitor
    encryption_enabled, encryptor, current_window, keystroke_buffer, running,
    \* history: which way ActivityMonitor::new came to its encryptor
    h_new,
    \* Database tables
    processes, windows, keys, clicks,
    \* the tracker's Mutex<Vec<InputEvent>> and what the producer has emitted
    tracker_events, produced,
    \* the task running start(): position, locals, result, ticks begun
    \* and what its flush_keystrokes call returned
    pcStart, window, events, startResult, ticks, flushResult,
    \* the task running stop()
    pcStop, stopResult,
    \* history: what was drained under an excluded window, the keys drained and
    \* the keys appended since the last successful flush, and per keys row the
    \* keys of the buffer it was written from
    h_excluded, h_drained, h_appended, h_batches,
    \* direct callers of the store and of the Encryptor: the insert_process
    \* calls made and their results; a plaintext, its payload, its decryption
    h_calls, enc_plain, enc_payload, enc_result,
    \* the payload of a second encrypt of the same plaintext; a decrypt call on
    \* some other input, with what it returned; what get_stats returned and
    \* what the last direct insert returned
    enc_again, dec_call, stats, store_result,
    \* history: the nonces OsRng gave the direct encrypt calls, in call order
    h_nonces,
    \* the tracker's Mutex at the level of its lock: the holder, the thread
    \* pushing an event, the thread in get_input_events with its local result,
    \* and history: the events pushed and the results returned, in order
    mutex, pushPc, drainPc, drainResult, h_pushed, h_returned,
    \* history: what start_input_tracking and stop_input_tracking returned
    h_tracking,
    \* two racing callers of insert_process: position, the name passed, what
    \* was returned, and history: the SELECT statements the call has issued
    callPc, callName, callResult, h_selects,
    \* the RwLocks of keystroke_buffer and current_window at the level of
    \* their guards, and the position of each task that takes them
    \* and the window id, text and bytes a flush_keystrokes call has in hand
    buffer_lock, window_lock, taskPc, key_data,
    \* get_stats statement by statement: its position and the values read so far
    statsPc, statsRow

monVars == <<encryption_enabled, encryptor, current_window, keystroke_buffer, running,
            h_new>>
dbVars == <<processes, windows, keys, clicks>>
trackerVars == <<tracker_events, produced>>
startVars == <<pcStart, window, events, startResult, ticks, flushResult>>
stopVars == <<pcStop, stopResult>>
histVars == <<h_excluded, h_drained, h_appended, h_batches>>
cryptoVars == <<enc_plain, enc_payload, enc_result, enc_again, dec_call>>
statsVars == <<stats, store_result>>
directVars == <<h_calls, cryptoVars, statsVars, h_nonces>>
lockVars == <<mutex, pushPc, drainPc, drainResult, h_pushed, h_returned>>
raceVars == <<callPc, callName, callResult, h_selects>>
rwVars == <<buffer_lock, window_lock, taskPc, key_data>>
snapVars == <<statsPc, statsRow>>
vars == <<monVars, dbVars, trackerVars, startVars, stopVars, histVars, directVars,
          lockVars, h_tracking, raceVars, rwVars, snapVars>>

\* The task running start() and the task running stop().
Tasks == {"start", "stop"}

\* The tasks that call Database::insert_process at the same time.
Callers == {1, 2}

\* The passphrases a user may supply.
Passwords == {1}

\* ActivityMonitor::new: the encryptor field.  Encryptor::new draws the salt
\* and may fail; .ok() turns the failure into None.
NewEncryptor(enabled, password, salt, derive_ok) ==
    IF enabled
    THEN IF IsSome(password) /\ derive_ok
         THEN Some(DeriveKey(password.val, salt))
         ELSE None
    ELSE None

\* The case of monitor.rs:30-34 the constructor went through.
NewCase(enabled, password, derive_ok) ==
    IF ~enabled THEN "disabled"
    ELSE IF ~IsSome(password) THEN "no_password"
    ELSE IF derive_ok THEN "derived" ELSE "derive_failed"

Init ==
    /\ encryption_enabled \in BOOLEAN
    /\ \E password \in {None} \cup {Some(p) : p \in Passwords},
          salt \in 0..MaxRandom, derive_ok \in BOOLEAN :
          /\ encryptor = NewEncryptor(encryption_enabled, password, salt, derive_ok)
          /\ h_new = NewCase(encryption_enabled, password, derive_ok)
    /\ current_window = None
    /\ keystroke_buffer = <<>>
    /\ running = FALSE
    /\ processes = <<>> /\ windows = <<>> /\ keys = <<>> /\ clicks = <<>>
    /\ tracker_events = <<>>
    /\ produced = [keys |-> 0, clicks |-> 0]
    /\ pcStart = "idle" /\ window = None /\ events = <<>>
    /\ startResult = "none" /\ ticks = 0 /\ flushResult = "none"
    /\ pcStop = "idle" /\ stopResult = "none"
    /\ h_excluded = [keys |-> {}, clicks |-> {}]
    /\ h_drained = <<>> /\ h_appended = <<>> /\ h_batches = <<>>
    /\ h_calls = <<>>
    /\ enc_plain = None /\ enc_payload = None /\ enc_result = None
    /\ enc_again = None /\ dec_call = None /\ stats = None /\ store_result = None
    /\ h_nonces = <<>>
    /\ mutex = "free" /\ pushPc = "idle" /\ drainPc = "idle"
    /\ callPc = [c \in Callers |-> "idle"]
    /\ callName = [c \in Callers |-> None]
    /\ callResult = [c \in Callers |-> None]
    /\ h_selects = [c \in Callers |-> 0]
    /\ buffer_lock = "free"
    /\ window_lock = [writer |-> "none", readers |-> {}]
    /\ taskPc = [t \in Tasks |-> "idle"]
    /\ key_data = [t \in Tasks |-> None]
    /\ statsPc = "idle" /\ statsRow = <<>>
    /\ drainResult = <<>> /\ h_pushed = <<>> /\ h_returned = <<>>
    /\ h_tracking = [start |-> "none", stop |-> "none"]

\* ------------------------------------------------------- the input producer

Emitted == produced.keys + produced.clicks

\* The capture backend pushes events onto the tracker's Vec under its mutex: a
\* key going down and up,
ProduceKey ==
    /\ Emitted < MaxEvents
    /\ tracker_events' = tracker_events \o
                            <<KeyPress(produced.keys + 1), KeyRelease(produced.keys + 1)>>
    /\ produced' = [produced EXCEPT !.keys = @ + 1]
    /\ UNCHANGED <<monVars, dbVars, startVars, stopVars, histVars, directVars, lockVars, h_tracking, raceVars, rwVars, snapVars>>

\* or a click of the left button, at a place of its own.
ProduceClick ==
    /\ Emitted < MaxEvents
    /\ tracker_events' = Append(tracker_events, MouseClick(produced.clicks + 1, 0, "Left"))
    /\ produced' = [produced EXCEPT !.clicks = @ + 1]
    /\ UNCHANGED <<monVars, dbVars, startVars, stopVars, histVars, directVars, lockVars, h_tracking, raceVars, rwVars, snapVars>>

\* ------------------------------------------------- ActivityMonitor::start

\* monitor.rs:47-48  start() is called (main.rs spawns it as a task); it has
\* not yet written the running flag.
StartCall ==
    /\ pcStart = "idle"
    /\ pcStart' = "called"
    /\ UNCHANGED <<monVars, dbVars, trackerVars, window, events, startResult, ticks,
                   flushResult, stopVars, histVars, directVars, lockVars, h_tracking,
                   raceVars, rwVars, snapVars>>

\* monitor.rs:50-51  *self.running.write().await = true;
\*                   self.tracker.start_input_tracking().await?;
StartBeginIgnoresError(tracking_ok) ==
    /\ pcStart = "called"
    /\ running' = TRUE
    /\ pcStart' = "check" /\ startResult' = startResult
    /\ h_tracking' = [h_tracking EXCEPT !.start = IF tracking_ok THEN "ok" ELSE "err"]
    /\ UNCHANGED <<h_new, encryption_enabled, encryptor, current_window, keystroke_buffer,
                   dbVars, trackerVars, window, events, ticks, flushResult, stopVars,
                   histVars, directVars, lockVars, raceVars, rwVars, snapVars>>
StartBegin(tracking_ok) ==
    /\ pcStart = "called"
    /\ running' = TRUE
    /\ IF tracking_ok THEN pcStart' = "check" /\ startResult' = startResult
                      ELSE pcStart' = "returned" /\ startResult' = "err_tracker"
    /\ h_tracking' = [h_tracking EXCEPT !.start = IF tracking_ok THEN "ok" ELSE "err"]
    /\ UNCHANGED <<h_new, encryption_enabled, encryptor, current_window, keystroke_buffer,
                   dbVars, trackerVars, window, events, ticks, flushResult, stopVars,
                   histVars, directVars, lockVars, raceVars, rwVars, snapVars>>

\* monitor.rs:56-57  while *self.running.read().await { interval.tick().await;
LoopCheckIgnoresFlag ==
    /\ pcStart = "check"
    /\ ticks < MaxTicks
    /\ pcStart' = "tick" /\ ticks' = ticks + 1 /\ startResult' = startResult
    /\ window' = None
    /\ flushResult' = "none"
    /\ UNCHANGED <<monVars, dbVars, trackerVars, events, stopVars, histVars, directVars,
                   lockVars, h_tracking, raceVars, rwVars, snapVars>>
LoopCheck ==
    /\ pcStart = "check"
    /\ IF running
       THEN /\ ticks < MaxTicks
            /\ pcStart' = "tick" /\ ticks' = ticks + 1 /\ startResult' = startResult
       ELSE /\ pcStart' = "returned" /\ startResult' = "ok" /\ ticks' = ticks
    /\ window' = None
    /\ flushResult' = "none"
    /\ UNCHANGED <<monVars, dbVars, trackerVars, events, stopVars, histVars, directVars, lockVars, h_tracking, raceVars, rwVars, snapVars>>

\* monitor.rs:63-65
ShouldUpdateAlways(current, w) == TRUE
ShouldUpdate(current, w) ==
    IF IsSome(current)
    THEN current.val.info.process_name # w.process_name
         \/ current.val.info.window_title # w.window_title
    ELSE TRUE

\* monitor.rs:67  the condition under which the tick writes a Process and a Window
ShouldInsertExcluded(current, w) == ShouldUpdate(current, w)
ShouldInsert(current, w) ==
    ShouldUpdate(current, w) /\ w.process_name \notin ExcludeApps

\* The outcomes of the two store calls of the window step.
StoreOutcomes == {"ok", "process_fails", "window_fails"}

\* monitor.rs:60-86  get_active_window and, under the write guard of
\* current_window, the decision and the two rows; a failed insert returns from
\* start() through `?`.
TickWindow(res, store) ==
    /\ pcStart = "tick"
    /\ window' = IF res.ok THEN Some(res.val) ELSE None
    /\ IF res.ok /\ ShouldInsert(current_window, res.val)
       THEN LET p == InsertProcess(processes, res.val.process_name, res.val.bundle_id)
                w == InsertWindow(windows, p.id, res.val.window_title)
            IN  CASE store = "process_fails" ->
                       /\ pcStart' = "returned" /\ startResult' = "err_store"
                       /\ UNCHANGED <<processes, windows, current_window>>
                  [] store = "window_fails" ->
                       /\ processes' = p.table
                       /\ pcStart' = "returned" /\ startResult' = "err_store"
                       /\ UNCHANGED <<windows, current_window>>
                  [] OTHER ->
                       /\ processes' = p.table
                       /\ windows' = w.table
                       /\ current_window' = Some([id |-> w.id, info |-> res.val])
                       /\ pcStart' = "drain"
                       /\ UNCHANGED startResult
       ELSE /\ store = "ok"
            /\ pcStart' = "drain"
            /\ UNCHANGED <<processes, windows, current_window, startResult>>
    /\ UNCHANGED <<h_new, encryption_enabled, encryptor, keystroke_buffer, running, keys, clicks,
                   trackerVars, events, ticks, flushResult, stopVars, histVars,
                   directVars, lockVars, h_tracking, raceVars, rwVars, snapVars>>

KeysOf(evs) ==
    LET ks == SelectSeq(evs, LAMBDA e : e.type = "KeyPress")
    IN  [i \in 1..Len(ks) |-> ks[i].key]

ClicksOf(evs) ==
    LET cs == SelectSeq(evs, LAMBDA e : e.type = "MouseClick")
    IN  [i \in 1..Len(cs) |-> cs[i].x]

Range(s) == {s[i] : i \in 1..Len(s)}

\* platform/linux.rs:43-48  get_input_events: lock, clone, clear.
GetInputEvents(queue) == [result |-> queue, queue |-> <<>>]

\* monitor.rs:89  let events = self.tracker.get_input_events();
TickDrain ==
    /\ pcStart = "drain"
    /\ LET got == GetInputEvents(tracker_events)
       IN  /\ events' = got.result
           /\ tracker_events' = got.queue
           /\ pcStart' = IF got.result = <<>> THEN "flush" ELSE "events"
           /\ h_drained' = h_drained \o KeysOf(got.result)
           /\ h_excluded' =
                 IF IsSome(window) /\ window.val.process_name \in ExcludeApps
                 THEN [keys |-> h_excluded.keys \cup Range(KeysOf(got.result)),
                       clicks |-> h_excluded.clicks \cup Range(ClicksOf(got.result))]
                 ELSE h_excluded
    /\ UNCHANGED <<monVars, dbVars, produced, window, startResult, ticks, flushResult,
                   stopVars, h_appended, h_batches, directVars, lockVars, h_tracking, raceVars, rwVars, snapVars>>

\* monitor.rs:97  the window id a click row is tagged with
ClickWindowIdNext(current) == current.val.id + 1
ClickWindowId(current) == current.val.id

\* monitor.rs:90-103  one iteration of `for event in events`; a failed
\* insert_click returns from start() through `?` and drops the rest of events.
TickEvent(store_ok) ==
    /\ pcStart = "events"
    /\ LET event == Head(events)
           rest == Tail(events)
           next == IF rest = <<>> THEN "flush" ELSE "events"
       IN  CASE event.type = "KeyPress" ->
                  /\ store_ok
                  /\ keystroke_buffer' = Append(keystroke_buffer, event.key)
                  /\ h_appended' = Append(h_appended, event.key)
                  /\ events' = rest /\ pcStart' = next
                  /\ UNCHANGED <<clicks, startResult>>
             [] event.type = "MouseClick" ->
                  /\ IF IsSome(current_window)
                     THEN IF store_ok
                          THEN /\ clicks' = InsertClick(clicks, ClickWindowId(current_window),
                                                        event.x, event.y,
                                                        ButtonStr(event.button), FALSE)
                               /\ events' = rest /\ pcStart' = next
                               /\ UNCHANGED startResult
                          ELSE /\ pcStart' = "returned" /\ startResult' = "err_store"
                               /\ events' = <<>>
                               /\ UNCHANGED clicks
                     ELSE /\ store_ok
                          /\ events' = rest /\ pcStart' = next
                          /\ UNCHANGED <<clicks, startResult>>
                  /\ UNCHANGED <<keystroke_buffer, h_appended>>
             [] OTHER ->
                  /\ store_ok
                  /\ events' = rest /\ pcStart' = next
                  /\ UNCHANGED <<keystroke_buffer, h_appended, clicks, startResult>>
    /\ UNCHANGED <<h_new, encryption_enabled, encryptor, current_window, running,
                   processes, windows, keys, trackerVars, window, ticks, flushResult,
                   stopVars, h_excluded, h_drained, h_batches, directVars, lockVars, h_tracking, raceVars, rwVars, snapVars>>

\* ------------------------------------------ ActivityMonitor::flush_keystrokes

\* monitor.rs:130-134  the bytes written to the keys row
KeyData(enc, nonce, buffer) ==
    IF IsSome(enc) THEN Encrypt(enc.val, nonce, AsBytes(buffer)) ELSE AsBytes(buffer)

\* monitor.rs:136  let key_count = buffer.len() as i32;  String::len counts
\* bytes; the cast changes no length below 2^31.
KeyCount(buffer) == Len(AsBytes(buffer))

\* monitor.rs:125-129  whether flush_keystrokes writes a row
FlushWrites(buffer, current) == buffer # <<>> /\ IsSome(current)

\* monitor.rs:140  buffer.clear()
BufferAfterFlushKept(buffer) == buffer
BufferAfterFlush(buffer) == <<>>

\* monitor.rs:122-144  flush_keystrokes, under the write guard of the buffer and
\* the read guard of current_window: Ok with nothing written when the buffer is
\* empty or no window is current; otherwise encrypt, insert_keys, clear.  ok is
\* whether insert_keys succeeds; the result is Ok or Err.
FlushClearsOnFailure(nonce, ok) ==
    IF FlushWrites(keystroke_buffer, current_window)
    THEN /\ keystroke_buffer' = BufferAfterFlush(keystroke_buffer)
         /\ h_appended' = <<>>
         /\ h_drained' = KeysOf(events)
         /\ IF ok
            THEN /\ keys' = InsertKeys(keys, current_window.val.id,
                                       KeyData(encryptor, nonce, keystroke_buffer),
                                       KeyCount(keystroke_buffer))
                 /\ h_batches' = Append(h_batches, h_appended)
            ELSE UNCHANGED <<keys, h_batches>>
    ELSE /\ ok
         /\ UNCHANGED <<keys, keystroke_buffer, h_batches, h_appended, h_drained>>
Flush(nonce, ok) ==
    IF FlushWrites(keystroke_buffer, current_window)
    THEN IF ok
         THEN /\ keys' = InsertKeys(keys, current_window.val.id,
                                    KeyData(encryptor, nonce, keystroke_buffer),
                                    KeyCount(keystroke_buffer))
              /\ keystroke_buffer' = BufferAfterFlush(keystroke_buffer)
              /\ h_batches' = Append(h_batches, h_appended)
              /\ h_appended' = <<>>
              /\ h_drained' = KeysOf(events)
         ELSE UNCHANGED <<keys, keystroke_buffer, h_batches, h_appended, h_drained>>
    ELSE /\ ok
         /\ UNCHANGED <<keys, keystroke_buffer, h_batches, h_appended, h_drained>>

\* monitor.rs:105-108  the flush of the tick: an error is logged, the loop goes on.
TickFlush(nonce, ok) ==
    /\ pcStart = "flush"
    /\ Flush(nonce, ok)
    /\ pcStart' = "check"
    /\ flushResult' = IF ok THEN "ok" ELSE "err"
    /\ UNCHANGED <<h_new, encryption_enabled, encryptor, current_window, running,
                   processes, windows, clicks, trackerVars, window, events,
                   startResult, ticks, stopVars, h_excluded, directVars, lockVars, h_tracking, raceVars, rwVars, snapVars>>

\* -------------------------------------------------- ActivityMonitor::stop

\* monitor.rs:116-117  *self.running.write().await = false;
\*                     self.tracker.stop_input_tracking().await?;
StopBegin(tracking_ok) ==
    /\ pcStop = "idle"
    /\ running' = FALSE
    /\ IF tracking_ok THEN pcStop' = "flush" /\ stopResult' = stopResult
                      ELSE pcStop' = "returned" /\ stopResult' = "err_tracker"
    /\ h_tracking' = [h_tracking EXCEPT !.stop = IF tracking_ok THEN "ok" ELSE "err"]
    /\ UNCHANGED <<h_new, encryption_enabled, encryptor, current_window, keystroke_buffer,
                   dbVars, trackerVars, startVars, histVars, directVars, lockVars, raceVars, rwVars, snapVars>>

\* monitor.rs:118-119  self.flush_keystrokes().await?; Ok(())
StopFlush(nonce, ok) ==
    /\ pcStop = "flush"
    /\ Flush(nonce, ok)
    /\ pcStop' = "returned"
    /\ stopResult' = IF ok THEN "ok" ELSE "err_store"
    /\ UNCHANGED <<h_new, encryption_enabled, encryptor, current_window, running,
                   processes, windows, clicks, trackerVars, startVars, h_excluded,
                   directVars, lockVars, h_tracking, raceVars, rwVars, snapVars>>

\* -------------------------------------------------------- specification

\* The queue of the tracker is read by get_input_events alone, so when an event
\* was pushed between two drains changes nothing the monitor can see: the
\* producer is scheduled right before the drain.
BeforeDrain == pcStart = "drain"

Next ==
    \/ BeforeDrain /\ ProduceKey
    \/ BeforeDrain /\ ProduceClick
    \/ StartCall
    \/ \E ok \in BOOLEAN : StartBegin(ok)
    \/ LoopCheck
    \/ \E res \in {Err} \cup {Ok(w) : w \in WindowInfos}, store \in StoreOutcomes :
          TickWindow(res, store)
    \/ TickDrain
    \/ \E ok \in BOOLEAN : TickEvent(ok)
    \/ \E nonce \in Nonces, ok \in BOOLEAN : TickFlush(nonce, ok)
    \/ \E ok \in BOOLEAN : StopBegin(ok)
    \/ \E nonce \in Nonces, ok \in BOOLEAN : StopFlush(nonce, ok)

Spec == Init /\ [][Next]_vars

\* The steps of the task running start() once it has been called.  The task
\* is scheduled by the runtime and the calls it awaits return, so a step of
\* it that stays possible is taken.
StartStep ==
    \/ \E ok \in BOOLEAN : StartBegin(ok)
    \/ LoopCheck
    \/ \E res \in {Err} \cup {Ok(w) : w \in WindowInfos}, store \in StoreOutcomes :
          TickWindow(res, store)
    \/ TickDrain
    \/ \E ok \in BOOLEAN : TickEvent(ok)
    \/ \E nonce \in Nonces, ok \in BOOLEAN : TickFlush(nonce, ok)

LiveSpec == Init /\ [][Next]_vars /\ WF_vars(StartStep)

\* monitor_handle.abort(): the task running start() is dropped at the await
\* it is suspended on; nothing of start() or flush_keystrokes runs afterwards.
Abort ==
    /\ pcStart \in {"check", "tick", "drain", "events", "flush"}
    /\ pcStart' = "aborted"
    /\ UNCHANGED <<monVars, dbVars, trackerVars, window, events, startResult, ticks,
                   flushResult, stopVars, histVars, directVars, lockVars, h_tracking,
                   raceVars, rwVars, snapVars>>

AbortSpec == Init /\ [][Next \/ Abort]_vars

\* Capture is on: start_input_tracking has returned Ok and stop_input_tracking
\* has not.
Capturing == h_tracking.start = "ok" /\ h_tracking.stop # "ok"

\* The monitor with the capture backend pushing events at any moment while
\* capture is on, and not only right before a drain.
CaptureNext ==
    \/ Capturing /\ ProduceKey
    \/ Capturing /\ ProduceClick
    \/ StartCall
    \/ \E ok \in BOOLEAN : StartBegin(ok)
    \/ LoopCheck
    \/ \E res \in {Err} \cup {Ok(w) : w \in WindowInfos}, store \in StoreOutcomes :
          TickWindow(res, store)
    \/ TickDrain
    \/ \E ok \in BOOLEAN : TickEvent(ok)
    \/ \E nonce \in Nonces, ok \in BOOLEAN : TickFlush(nonce, ok)
    \/ \E ok \in BOOLEAN : StopBegin(ok)
    \/ \E nonce \in Nonces, ok \in BOOLEAN : StopFlush(nonce, ok)

CaptureSpec == Init /\ [][CaptureNext]_vars

\* The monitor when start() is called no later than stop() returns: the
\* interleavings of a start() and a stop() that overlap.
OverlapNext ==
    \/ BeforeDrain /\ ProduceKey
    \/ BeforeDrain /\ ProduceClick
    \/ pcStop # "returned" /\ StartCall
    \/ \E ok \in BOOLEAN : StartBegin(ok)
    \/ LoopCheck
    \/ \E res \in {Err} \cup {Ok(w) : w \in WindowInfos}, store \in StoreOutcomes :
          TickWindow(res, store)
    \/ TickDrain
    \/ \E ok \in BOOLEAN : TickEvent(ok)
    \/ \E nonce \in Nonces, ok \in BOOLEAN : TickFlush(nonce, ok)
    \/ \E ok \in BOOLEAN : StopBegin(ok)
    \/ \E nonce \in Nonces, ok \in BOOLEAN : StopFlush(nonce, ok)

OverlapSpec == Init /\ [][OverlapNext]_vars

\* ------------------------------------------- direct calls of the Event Store

ProcessNames == {"Chrome", "Terminal"}
BundleIds == {Null, "com.google.Chrome"}

\* A caller of Database::insert_process; a failed statement returns Err through
\* `?` and leaves the table as it was.
CallInsertProcess(name, bundle_id, ok) ==
    /\ Len(h_calls) < MaxCalls
    /\ IF ok
       THEN LET r == InsertProcess(processes, name, bundle_id)
            IN  /\ processes' = r.table
                /\ h_calls' = Append(h_calls, [name |-> name, bundle_id |-> bundle_id,
                                               result |-> Ok(r.id)])
       ELSE /\ processes' = processes
            /\ h_calls' = Append(h_calls, [name |-> name, bundle_id |-> bundle_id,
                                           result |-> Err])
    /\ UNCHANGED <<monVars, windows, keys, clicks, trackerVars, startVars, stopVars,
                   histVars, cryptoVars, statsVars, h_nonces, lockVars, h_tracking, raceVars, rwVars, snapVars>>

StoreNext ==
    \E name \in ProcessNames, bundle_id \in BundleIds, ok \in BOOLEAN :
        CallInsertProcess(name, bundle_id, ok)

StoreSpec == Init /\ [][StoreNext]_vars

\* ------------------------------- the Event Store under inserts and get_stats

TotalRows == Len(processes) + Len(windows) + Len(keys) + Len(clicks)

\* The ids, titles and key counts direct callers pass.
RowIds == 1..MaxRows
Titles == {"t1", "t2"}
KeyCounts == {1, 2}

\* What every direct insert leaves alone.
DbCall ==
    /\ stats = None
    /\ TotalRows < MaxRows
    /\ UNCHANGED <<monVars, trackerVars, startVars, stopVars, histVars, h_calls,
                   cryptoVars, stats, h_nonces, lockVars, h_tracking, raceVars, rwVars, snapVars>>

DbInsertProcess(name, bundle_id) ==
    /\ DbCall
    /\ LET r == InsertProcess(processes, name, bundle_id)
       IN  /\ processes' = r.table
           /\ store_result' = Some(Ok(r.id))
    /\ UNCHANGED <<windows, keys, clicks>>

DbInsertWindow(process_id, title) ==
    /\ DbCall
    /\ IF ForeignKeyOk(processes, process_id)
       THEN LET r == InsertWindow(windows, process_id, title)
            IN  /\ windows' = r.table
                /\ store_result' = Some(Ok(r.id))
       ELSE /\ windows' = windows
            /\ store_result' = Some(Err)
    /\ UNCHANGED <<processes, keys, clicks>>

DbInsertKeys(window_id, key_count) ==
    /\ DbCall
    /\ IF ForeignKeyOk(windows, window_id)
       THEN /\ keys' = InsertKeys(keys, window_id, [i \in 1..key_count |-> 97], key_count)
            /\ store_result' = Some(Ok(NextId(keys)))
       ELSE /\ keys' = keys
            /\ store_result' = Some(Err)
    /\ UNCHANGED <<processes, windows, clicks>>

DbInsertClick(window_id, button) ==
    /\ DbCall
    /\ IF ForeignKeyOk(windows, window_id)
       THEN /\ clicks' = InsertClick(clicks, window_id, 0, 0, button, FALSE)
            /\ store_result' = Some(Ok(NextId(clicks)))
       ELSE /\ clicks' = clicks
            /\ store_result' = Some(Err)
    /\ UNCHANGED <<processes, windows, keys>>

\* get_stats() with no writer running.
DbGetStats ==
    /\ stats = None
    /\ \E r \in GetStats(processes, windows, keys, clicks) : stats' = Some(r)
    /\ UNCHANGED <<monVars, dbVars, trackerVars, startVars, stopVars, histVars,
                   h_calls, cryptoVars, store_result, h_nonces, lockVars, h_tracking, raceVars, rwVars, snapVars>>

DbNext ==
    \/ \E name \in ProcessNames, bundle_id \in BundleIds : DbInsertProcess(name, bundle_id)
    \/ \E process_id \in RowIds, title \in Titles : DbInsertWindow(process_id, title)
    \/ \E window_id \in RowIds, key_count \in KeyCounts : DbInsertKeys(window_id, key_count)
    \/ \E window_id \in RowIds : DbInsertClick(window_id, "Left")
    \/ DbGetStats

DbSpec == Init /\ [][DbNext]_vars

\* --------------------------------------------- direct calls of the Encryptor

SampleBytes == {0, 97, 195, 255}
Plaintexts == UNION {[1..n -> SampleBytes] : n \in 0..MaxPlain}

\* encryptor.encrypt(p), with the nonce OsRng produced
CallEncrypt(p, nonce) ==
    /\ IsSome(encryptor)
    /\ enc_plain = None
    /\ enc_plain' = Some(p)
    /\ enc_payload' = Some(Encrypt(encryptor.val, nonce, p))
    /\ h_nonces' = Append(h_nonces, nonce)
    /\ UNCHANGED <<monVars, dbVars, trackerVars, startVars, stopVars, histVars,
                   h_calls, enc_result, enc_again, dec_call, statsVars, lockVars, h_tracking, raceVars, rwVars, snapVars>>

\* encryptor.decrypt(payload), by the same Encryptor
CallDecrypt ==
    /\ IsSome(encryptor)
    /\ IsSome(enc_payload)
    /\ enc_result = None
    /\ dec_call = None
    /\ enc_result' = Some(Decrypt(encryptor.val, enc_payload.val))
    /\ UNCHANGED <<monVars, dbVars, trackerVars, startVars, stopVars, histVars,
                   h_calls, enc_plain, enc_payload, enc_again, dec_call, statsVars,
                   h_nonces, lockVars, h_tracking, raceVars, rwVars, snapVars>>

\* The nonces OsRng may produce for a direct caller.
CallNonces == {NonceBytes(n) : n \in 0..MaxNonce}

\* encryptor.encrypt(p) once more, on the same plaintext and by the same
\* Encryptor, with the nonce OsRng produced this time
CallEncryptAgain(nonce) ==
    /\ IsSome(encryptor)
    /\ IsSome(enc_plain)
    /\ enc_again = None
    /\ dec_call = None
    /\ enc_again' = Some(Encrypt(encryptor.val, nonce, enc_plain.val))
    /\ h_nonces' = Append(h_nonces, nonce)
    /\ UNCHANGED <<monVars, dbVars, trackerVars, startVars, stopVars, histVars,
                   h_calls, enc_plain, enc_payload, enc_result, dec_call, statsVars,
                   lockVars, h_tracking, raceVars, rwVars, snapVars>>

\* Inputs shorter than a nonce: the first bytes of a payload, and runs of one
\* byte.
ShortInputs ==
    {[i \in 1..n |-> b] : n \in 0..(NonceLen - 1), b \in SampleBytes}
      \cup (IF IsSome(enc_payload)
            THEN {SubSeq(enc_payload.val, 1, n) : n \in 0..(NonceLen - 1)}
            ELSE {})

\* What a modified byte differs by.
ByteDeltas == {1, 128, 255}

\* payload with the byte at position i changed by d
Tamper(payload, i, d) == [payload EXCEPT ![i] = (@ + d) % 256]

\* The keys of other Encryptors: another salt, another passphrase.
ForeignKeys(key) ==
    {DeriveKey(p, salt) : p \in Passwords \cup {2}, salt \in 0..MaxRandom} \ {key}

\* encryptor.decrypt(input) on an input that is no output of this Encryptor's
\* encrypt, as a reader of stored data may meet it.
DecryptOther(kind, input) ==
    /\ IsSome(encryptor)
    /\ dec_call = None /\ enc_again = None /\ enc_result = None
    /\ dec_call' = Some([kind |-> kind, input |-> input,
                         result |-> Decrypt(encryptor.val, input)])
    /\ UNCHANGED <<monVars, dbVars, trackerVars, startVars, stopVars, histVars,
                   h_calls, enc_plain, enc_payload, enc_result, enc_again, statsVars,
                   h_nonces, lockVars, h_tracking, raceVars, rwVars, snapVars>>

CallDecryptShort == \E input \in ShortInputs : DecryptOther("short", input)

CallDecryptTampered ==
    /\ IsSome(enc_payload)
    /\ \E i \in 1..Len(enc_payload.val), d \in ByteDeltas :
          DecryptOther("tampered", Tamper(enc_payload.val, i, d))

CallDecryptForeign ==
    /\ IsSome(encryptor) /\ IsSome(enc_plain)
    /\ \E key \in ForeignKeys(encryptor.val), nonce \in CallNonces :
          DecryptOther("foreign", Encrypt(key, nonce, enc_plain.val))

\* Encryptor::new once more, later, from the passphrase this Encryptor was
\* constructed from, and decrypt of this Encryptor's payload by the new one.
CallDecryptSecond ==
    /\ IsSome(encryptor) /\ IsSome(enc_payload)
    /\ dec_call = None /\ enc_again = None /\ enc_result = None
    /\ \E password \in Passwords, salt \in 0..MaxRandom, salt2 \in 0..MaxSalt :
          /\ encryptor.val = DeriveKey(password, salt)
          /\ dec_call' = Some([kind |-> "second", input |-> enc_payload.val,
                               result |-> Decrypt(DeriveKey(password, salt2),
                                                  enc_payload.val),
                               salt |-> salt, salt2 |-> salt2])
    /\ UNCHANGED <<monVars, dbVars, trackerVars, startVars, stopVars, histVars,
                   h_calls, enc_plain, enc_payload, enc_result, enc_again, statsVars,
                   h_nonces, lockVars, h_tracking, raceVars, rwVars, snapVars>>

CryptoNext ==
    \/ \E p \in Plaintexts, nonce \in CallNonces : CallEncrypt(p, nonce)
    \/ CallDecrypt
    \/ \E nonce \in CallNonces : CallEncryptAgain(nonce)
    \/ CallDecryptShort
    \/ CallDecryptTampered
    \/ CallDecryptForeign
    \/ CallDecryptSecond

CryptoSpec == Init /\ [][CryptoNext]_vars

\* ------------------- insert_process by two callers, statement by statement

\* INSERT OR IGNORE INTO processes (name, bundle_id): a row whose name is
\* there already is left alone and no row is affected.
InsertOrIgnore(table, name, bundle_id) ==
    IF HasProcess(table, name)
    THEN [table |-> table, rows_affected |-> 0, last_insert_rowid |-> 0]
    ELSE [table |-> Append(table, [id |-> NextId(table), name |-> name,
                                   bundle_id |-> bundle_id]),
          rows_affected |-> 1, last_insert_rowid |-> NextId(table)]

\* SELECT id FROM processes WHERE name = ? through fetch_one: the id of the
\* row, RowNotFound when there is none.
FetchOneId(table, name) ==
    IF HasProcess(table, name) THEN Ok(ProcessIdOf(table, name)) ELSE Err

\* .execute(&self.pool).await? and the branch on rows_affected()
RaceInsert(c, name, bundle_id, ok) ==
    /\ callPc[c] \in {"idle", "returned"}
    /\ callName' = [callName EXCEPT ![c] = Some(name)]
    /\ h_selects' = [h_selects EXCEPT ![c] = 0]
    /\ IF ok
       THEN LET r == InsertOrIgnore(processes, name, bundle_id)
            IN  /\ processes' = r.table
                /\ IF r.rows_affected = 0
                   THEN /\ callPc' = [callPc EXCEPT ![c] = "read_back"]
                        /\ callResult' = [callResult EXCEPT ![c] = None]
                   ELSE /\ callPc' = [callPc EXCEPT ![c] = "returned"]
                        /\ callResult' =
                              [callResult EXCEPT ![c] = Some(Ok(r.last_insert_rowid))]
       ELSE /\ processes' = processes
            /\ callPc' = [callPc EXCEPT ![c] = "returned"]
            /\ callResult' = [callResult EXCEPT ![c] = Some(Err)]
    /\ UNCHANGED <<monVars, windows, keys, clicks, trackerVars, startVars, stopVars,
                   histVars, directVars, lockVars, h_tracking, rwVars, snapVars>>

\* .fetch_one(&self.pool).await? and Ok(row.get("id"))
RaceReadBack(c, ok) ==
    /\ callPc[c] = "read_back"
    /\ h_selects' = [h_selects EXCEPT ![c] = @ + 1]
    /\ callResult' = [callResult EXCEPT ![c] =
                         Some(IF ok THEN FetchOneId(processes, callName[c].val) ELSE Err)]
    /\ callPc' = [callPc EXCEPT ![c] = "returned"]
    /\ UNCHANGED <<monVars, dbVars, trackerVars, startVars, stopVars, histVars,
                   directVars, lockVars, h_tracking, callName, rwVars, snapVars>>

RaceNext ==
    \/ \E c \in Callers, name \in ProcessNames, bundle_id \in BundleIds, ok \in BOOLEAN :
          RaceInsert(c, name, bundle_id, ok)
    \/ \E c \in Callers, ok \in BOOLEAN : RaceReadBack(c, ok)

RaceSpec == Init /\ [][RaceNext]_vars

\* ------------------------------------- the tracker's queue under its Mutex

\* Mutex::lock returns when no thread holds the guard.
MutexIgnored(m) == TRUE
MutexFree(m) == m = "free"

\* The platform's capture thread: events.lock().unwrap().push(event)
PushLock ==
    /\ pushPc = "idle"
    /\ Len(h_pushed) < MaxEvents
    /\ MutexFree(mutex)
    /\ mutex' = "producer" /\ pushPc' = "locked"
    /\ UNCHANGED <<monVars, dbVars, trackerVars, startVars, stopVars, histVars,
                   directVars, drainPc, drainResult, h_pushed, h_returned, h_tracking, raceVars, rwVars, snapVars>>

Push(event) ==
    /\ pushPc = "locked"
    /\ tracker_events' = Append(tracker_events, event)
    /\ h_pushed' = Append(h_pushed, event)
    /\ pushPc' = "pushed"
    /\ UNCHANGED <<monVars, dbVars, produced, startVars, stopVars, histVars,
                   directVars, mutex, drainPc, drainResult, h_returned, h_tracking, raceVars, rwVars, snapVars>>

PushUnlock ==
    /\ pushPc = "pushed"
    /\ mutex' = "free" /\ pushPc' = "idle"
    /\ UNCHANGED <<monVars, dbVars, trackerVars, startVars, stopVars, histVars,
                   directVars, drainPc, drainResult, h_pushed, h_returned, h_tracking, raceVars, rwVars, snapVars>>

\* get_input_events, statement by statement:
\*   let mut events = self.events.lock().unwrap();
DrainLock ==
    /\ drainPc = "idle"
    /\ Len(h_returned) < MaxCalls
    /\ MutexFree(mutex)
    /\ mutex' = "drainer" /\ drainPc' = "locked"
    /\ UNCHANGED <<monVars, dbVars, trackerVars, startVars, stopVars, histVars,
                   directVars, pushPc, drainResult, h_pushed, h_returned, h_tracking, raceVars, rwVars, snapVars>>

\*   let result = events.clone();
DrainClone ==
    /\ drainPc = "locked"
    /\ drainResult' = GetInputEvents(tracker_events).result
    /\ drainPc' = "cloned"
    /\ UNCHANGED <<monVars, dbVars, trackerVars, startVars, stopVars, histVars,
                   directVars, mutex, pushPc, h_pushed, h_returned, h_tracking, raceVars, rwVars, snapVars>>

\*   events.clear();
DrainClear ==
    /\ drainPc = "cloned"
    /\ tracker_events' = GetInputEvents(tracker_events).queue
    /\ drainPc' = "cleared"
    /\ UNCHANGED <<monVars, dbVars, produced, startVars, stopVars, histVars,
                   directVars, mutex, pushPc, drainResult, h_pushed, h_returned, h_tracking, raceVars, rwVars, snapVars>>

\*   result        (the guard is dropped)
DrainReturn ==
    /\ drainPc = "cleared"
    /\ mutex' = "free"
    /\ h_returned' = Append(h_returned, drainResult)
    /\ drainResult' = <<>>
    /\ drainPc' = "idle"
    /\ UNCHANGED <<monVars, dbVars, trackerVars, startVars, stopVars, histVars,
                   directVars, pushPc, h_pushed, h_tracking, raceVars, rwVars, snapVars>>

\* The event the capture thread pushes next.
NextEvents ==
    LET n == Len(h_pushed) + 1
    IN  {KeyPress(n), KeyRelease(n), MouseClick(n, 0, "Left")}

DrainNext ==
    \/ PushLock
    \/ \E event \in NextEvents : Push(event)
    \/ PushUnlock
    \/ DrainLock
    \/ DrainClone
    \/ DrainClear
    \/ DrainReturn

DrainSpec == Init /\ [][DrainNext]_vars

\* ------------------------- get_stats statement by statement, with a writer

\* db.rs:190-233  the next statement of get_stats: four aggregates, each read
\* from the table as it is when its SELECT runs, then the most active
\* process and the result; a failed statement returns Err through `?`.
SnapStatement(ok) ==
    /\ stats = None
    /\ statsPc # "returned"
    /\ IF ~ok
       THEN statsPc' = "returned" /\ UNCHANGED <<statsRow, stats>>
       ELSE CASE statsPc = "idle" ->
                   /\ statsRow' = <<Coalesce(SqlSum([i \in 1..Len(keys) |->
                                                        keys[i].key_count]), 0)>>
                   /\ statsPc' = "clicks" /\ UNCHANGED stats
              [] statsPc = "clicks" ->
                   /\ statsRow' = Append(statsRow, CountRows(clicks))
                   /\ statsPc' = "windows" /\ UNCHANGED stats
              [] statsPc = "windows" ->
                   /\ statsRow' = Append(statsRow, CountRows(windows))
                   /\ statsPc' = "processes" /\ UNCHANGED stats
              [] statsPc = "processes" ->
                   /\ statsRow' = Append(statsRow, CountRows(processes))
                   /\ statsPc' = "most_active" /\ UNCHANGED stats
              [] OTHER ->
                   /\ \E m \in MostActiveProcess(processes, windows) :
                         stats' = Some([total_keystrokes |-> statsRow[1],
                                        total_clicks |-> statsRow[2],
                                        total_windows |-> statsRow[3],
                                        total_processes |-> statsRow[4],
                                        session_duration |-> 0,
                                        most_active_process |-> m,
                                        most_active_window |-> None])
                   /\ statsPc' = "returned" /\ UNCHANGED statsRow
    /\ UNCHANGED <<monVars, dbVars, trackerVars, startVars, stopVars, histVars,
                   h_calls, cryptoVars, store_result, h_nonces, lockVars, h_tracking,
                   raceVars, rwVars>>

\* The dashboard calls get_stats while the Monitor inserts rows.
SnapNext ==
    \/ \E name \in ProcessNames, bundle_id \in BundleIds : DbInsertProcess(name, bundle_id)
    \/ \E process_id \in RowIds, title \in Titles : DbInsertWindow(process_id, title)
    \/ \E window_id \in RowIds, key_count \in KeyCounts : DbInsertKeys(window_id, key_count)
    \/ \E window_id \in RowIds : DbInsertClick(window_id, "Left")
    \/ \E ok \in BOOLEAN : SnapStatement(ok)

SnapSpec == Init /\ [][SnapNext]_vars

\* --------------- start(), stop() and flush_keystrokes under their RwLocks

\* RwLock::write on keystroke_buffer returns when no guard is out.
BufferLockIgnored(lock) == TRUE
BufferLockFree(lock) == lock = "free"

\* RwLock::read on current_window returns when no write guard is out;
\* RwLock::write when no guard at all is out.
WindowReadable(lock) == lock.writer = "none"
WindowWritable(lock) == lock.writer = "none" /\ lock.readers = {}

\* monitor.rs:86  the write guard `current` is dropped at the end of its block
DropWindowWriteKept(lock) == lock
DropWindowWrite(lock) == [lock EXCEPT !.writer = "none"]

\* a read guard of current_window is dropped
DropWindowRead(lock, t) == [lock EXCEPT !.readers = @ \ {t}]

\* What no step of start(), stop() or flush_keystrokes at this level changes.
RwFrame ==
    UNCHANGED <<h_new, encryption_enabled, encryptor, pcStart, flushResult, pcStop,
                h_excluded, h_drained, h_appended, directVars, lockVars, h_tracking,
                raceVars, snapVars>>

\* monitor.rs:50-51
RwStart(tracking_ok) ==
    /\ taskPc["start"] = "idle"
    /\ running' = TRUE
    /\ IF tracking_ok
       THEN taskPc' = [taskPc EXCEPT !["start"] = "check"] /\ startResult' = startResult
       ELSE taskPc' = [taskPc EXCEPT !["start"] = "returned"]
            /\ startResult' = "err_tracker"
    /\ RwFrame
    /\ UNCHANGED <<current_window, keystroke_buffer, dbVars, trackerVars, window, events,
                   ticks, stopResult, h_batches, buffer_lock, window_lock, key_data>>

\* monitor.rs:56-57
RwCheck ==
    /\ taskPc["start"] = "check"
    /\ IF running
       THEN /\ ticks < MaxTicks
            /\ taskPc' = [taskPc EXCEPT !["start"] = "window"]
            /\ ticks' = ticks + 1 /\ startResult' = startResult
       ELSE /\ taskPc' = [taskPc EXCEPT !["start"] = "returned"]
            /\ startResult' = "ok" /\ ticks' = ticks
    /\ window' = None
    /\ RwFrame
    /\ UNCHANGED <<running, current_window, keystroke_buffer, dbVars, trackerVars,
                   events, stopResult, h_batches, buffer_lock, window_lock, key_data>>

\* monitor.rs:60-61  get_active_window and self.current_window.write().await
RwWindowLock(res) ==
    /\ taskPc["start"] = "window"
    /\ IF res.ok
       THEN /\ WindowWritable(window_lock)
            /\ window_lock' = [window_lock EXCEPT !.writer = "start"]
            /\ window' = Some(res.val)
            /\ taskPc' = [taskPc EXCEPT !["start"] = "window_held"]
       ELSE /\ window' = None
            /\ taskPc' = [taskPc EXCEPT !["start"] = "drain"]
            /\ UNCHANGED window_lock
    /\ RwFrame
    /\ UNCHANGED <<running, current_window, keystroke_buffer, dbVars, trackerVars,
                   events, startResult, ticks, stopResult, h_batches, buffer_lock,
                   key_data>>

\* monitor.rs:63-86  under the write guard: the decision, the two rows, the
\* pointer; the guard is dropped at the end of the block and by `?`.
RwWindowBody(store) ==
    /\ taskPc["start"] = "window_held"
    /\ IF ShouldInsert(current_window, window.val)
       THEN LET p == InsertProcess(processes, window.val.process_name, window.val.bundle_id)
                w == InsertWindow(windows, p.id, window.val.window_title)
            IN  CASE store = "process_fails" ->
                       /\ taskPc' = [taskPc EXCEPT !["start"] = "returned"]
                       /\ startResult' = "err_store"
                       /\ UNCHANGED <<processes, windows, current_window>>
                  [] store = "window_fails" ->
                       /\ processes' = p.table
                       /\ taskPc' = [taskPc EXCEPT !["start"] = "returned"]
                       /\ startResult' = "err_store"
                       /\ UNCHANGED <<windows, current_window>>
                  [] OTHER ->
                       /\ processes' = p.table
                       /\ windows' = w.table
                       /\ current_window' = Some([id |-> w.id, info |-> window.val])
                       /\ taskPc' = [taskPc EXCEPT !["start"] = "drain"]
                       /\ UNCHANGED startResult
       ELSE /\ store = "ok"
            /\ taskPc' = [taskPc EXCEPT !["start"] = "drain"]
            /\ UNCHANGED <<processes, windows, current_window, startResult>>
    /\ window_lock' = DropWindowWrite(window_lock)
    /\ RwFrame
    /\ UNCHANGED <<running, keystroke_buffer, keys, clicks, trackerVars, window, events,
                   ticks, stopResult, h_batches, buffer_lock, key_data>>

\* monitor.rs:89
RwDrain ==
    /\ taskPc["start"] = "drain"
    /\ LET got == GetInputEvents(tracker_events)
       IN  /\ events' = got.result
           /\ tracker_events' = got.queue
           /\ taskPc' = [taskPc EXCEPT !["start"] =
                            IF got.result = <<>> THEN "flush" ELSE "event"]
    /\ RwFrame
    /\ UNCHANGED <<running, current_window, keystroke_buffer, dbVars, produced, window,
                   startResult, ticks, stopResult, h_batches, buffer_lock, window_lock,
                   key_data>>

\* monitor.rs:90-103  the next event: a KeyPress is pushed under the write
\* guard of the buffer, a MouseClick takes the read guard of current_window,
\* anything else is skipped.
RwEvent ==
    /\ taskPc["start"] = "event"
    /\ LET event == Head(events)
           rest == Tail(events)
           next == IF rest = <<>> THEN "flush" ELSE "event"
       IN  CASE event.type = "KeyPress" ->
                  /\ BufferLockFree(buffer_lock)
                  /\ keystroke_buffer' = Append(keystroke_buffer, event.key)
                  /\ events' = rest
                  /\ taskPc' = [taskPc EXCEPT !["start"] = next]
                  /\ UNCHANGED window_lock
             [] event.type = "MouseClick" ->
                  /\ WindowReadable(window_lock)
                  /\ window_lock' = [window_lock EXCEPT !.readers = @ \cup {"start"}]
                  /\ taskPc' = [taskPc EXCEPT !["start"] = "click_held"]
                  /\ UNCHANGED <<keystroke_buffer, events>>
             [] OTHER ->
                  /\ events' = rest
                  /\ taskPc' = [taskPc EXCEPT !["start"] = next]
                  /\ UNCHANGED <<keystroke_buffer, window_lock>>
    /\ RwFrame
    /\ UNCHANGED <<running, current_window, dbVars, trackerVars, window, startResult,
                   ticks, stopResult, h_batches, buffer_lock, key_data>>

\* monitor.rs:96-99  insert_click under the read guard; `?` returns from
\* start() and drops the guard and the rest of events.
RwClick(store_ok) ==
    /\ taskPc["start"] = "click_held"
    /\ LET event == Head(events)
           rest == Tail(events)
           next == IF rest = <<>> THEN "flush" ELSE "event"
       IN  IF IsSome(current_window)
           THEN IF store_ok
                THEN /\ clicks' = InsertClick(clicks, ClickWindowId(current_window),
                                              event.x, event.y, ButtonStr(event.button),
                                              FALSE)
                     /\ events' = rest
                     /\ taskPc' = [taskPc EXCEPT !["start"] = next]
                     /\ UNCHANGED startResult
                ELSE /\ taskPc' = [taskPc EXCEPT !["start"] = "returned"]
                     /\ startResult' = "err_store"
                     /\ events' = <<>>
                     /\ UNCHANGED clicks
           ELSE /\ store_ok
                /\ events' = rest
                /\ taskPc' = [taskPc EXCEPT !["start"] = next]
                /\ UNCHANGED <<clicks, startResult>>
    /\ window_lock' = DropWindowRead(window_lock, "start")
    /\ RwFrame
    /\ UNCHANGED <<running, current_window, keystroke_buffer, processes, windows, keys,
                   trackerVars, window, ticks, stopResult, h_batches, buffer_lock,
                   key_data>>

\* flush_keystrokes has returned to the task: start() logs an error and goes
\* on to the loop check, stop() returns what it got.
RwFlushed(t, ok) ==
    IF t = "start"
    THEN /\ taskPc' = [taskPc EXCEPT ![t] = "check"]
         /\ UNCHANGED stopResult
    ELSE /\ taskPc' = [taskPc EXCEPT ![t] = "returned"]
         /\ stopResult' = IF ok THEN "ok" ELSE "err_store"

\* monitor.rs:123-127  the write guard of the buffer and the empty check
RwFlushLock(t) ==
    /\ taskPc[t] = "flush"
    /\ BufferLockFree(buffer_lock)
    /\ IF keystroke_buffer = <<>>
       THEN /\ RwFlushed(t, TRUE)
            /\ UNCHANGED buffer_lock
       ELSE /\ buffer_lock' = t
            /\ taskPc' = [taskPc EXCEPT ![t] = "flush_window"]
            /\ UNCHANGED stopResult
    /\ RwFrame
    /\ UNCHANGED <<running, current_window, keystroke_buffer, dbVars, trackerVars, window,
                   events, startResult, ticks, h_batches, window_lock, key_data>>

\* monitor.rs:129-136  the read guard of current_window; with a window, the
\* bytes to write are taken from the buffer; with none, Ok(()).
RwFlushWindow(t, nonce) ==
    /\ taskPc[t] = "flush_window"
    /\ WindowReadable(window_lock)
    /\ IF IsSome(current_window)
       THEN /\ window_lock' = [window_lock EXCEPT !.readers = @ \cup {t}]
            /\ key_data' = [key_data EXCEPT ![t] =
                  Some([window_id |-> current_window.val.id,
                        text |-> keystroke_buffer,
                        bytes |-> KeyData(encryptor, nonce, keystroke_buffer),
                        key_count |-> KeyCount(keystroke_buffer)])]
            /\ taskPc' = [taskPc EXCEPT ![t] = "flush_insert"]
            /\ UNCHANGED <<buffer_lock, stopResult>>
       ELSE /\ buffer_lock' = "free"
            /\ RwFlushed(t, TRUE)
            /\ UNCHANGED <<window_lock, key_data>>
    /\ RwFrame
    /\ UNCHANGED <<running, current_window, keystroke_buffer, dbVars, trackerVars, window,
                   events, startResult, ticks, h_batches>>

\* monitor.rs:137-143  insert_keys and buffer.clear(); both guards are dropped
\* on return, by `?` as well.
RwFlushInsert(t, ok) ==
    /\ taskPc[t] = "flush_insert"
    /\ IF ok
       THEN /\ keys' = InsertKeys(keys, key_data[t].val.window_id, key_data[t].val.bytes,
                                  key_data[t].val.key_count)
            /\ h_batches' = Append(h_batches, key_data[t].val.text)
            /\ keystroke_buffer' = BufferAfterFlush(keystroke_buffer)
       ELSE UNCHANGED <<keys, h_batches, keystroke_buffer>>
    /\ key_data' = [key_data EXCEPT ![t] = None]
    /\ buffer_lock' = "free"
    /\ window_lock' = DropWindowRead(window_lock, t)
    /\ RwFlushed(t, ok)
    /\ RwFrame
    /\ UNCHANGED <<running, current_window, processes, windows, clicks, trackerVars,
                   window, events, startResult, ticks>>

\* monitor.rs:116-118
RwStop(tracking_ok) ==
    /\ taskPc["stop"] = "idle"
    /\ running' = FALSE
    /\ IF tracking_ok
       THEN taskPc' = [taskPc EXCEPT !["stop"] = "flush"] /\ stopResult' = stopResult
       ELSE taskPc' = [taskPc EXCEPT !["stop"] = "returned"]
            /\ stopResult' = "err_tracker"
    /\ RwFrame
    /\ UNCHANGED <<current_window, keystroke_buffer, dbVars, trackerVars, window, events,
                   startResult, ticks, h_batches, buffer_lock, window_lock, key_data>>

\* The steps of one task.
RwTaskStep(t) ==
    \/ /\ t = "start"
       /\ \/ \E ok \in BOOLEAN : RwStart(ok)
          \/ RwCheck
          \/ \E res \in {Err} \cup {Ok(w) : w \in WindowInfos} : RwWindowLock(res)
          \/ \E store \in StoreOutcomes : RwWindowBody(store)
          \/ RwDrain
          \/ RwEvent
          \/ \E ok \in BOOLEAN : RwClick(ok)
    \/ /\ t = "stop"
       /\ \E ok \in BOOLEAN : RwStop(ok)
    \/ RwFlushLock(t)
    \/ \E nonce \in Nonces : RwFlushWindow(t, nonce)
    \/ \E ok \in BOOLEAN : RwFlushInsert(t, ok)

RwNext ==
    \/ taskPc["start"] = "drain" /\ ProduceKey
    \/ taskPc["start"] = "drain" /\ ProduceClick
    \/ \E t \in Tasks : RwTaskStep(t)

\* The tasks are scheduled by the runtime and the calls they await return: a
\* step of some task that stays possible is taken.
LockSpec == Init /\ [][RwNext]_vars /\ WF_vars(\E t \in Tasks : RwTaskStep(t))

\* ------------------------------------------------------------------ claims

\* C1: with encryption enabled in the configuration, every keys row carries an
\* output of Encryptor::encrypt over the buffer it was written from, never the
\* buffer's own bytes.
C1_EncryptedWhenEnabled ==
    encryption_enabled =>
        \A i \in 1..Len(keys) :
            /\ IsSome(encryptor)
            /\ \E nonce \in Nonces :
                  keys[i].encrypted_keys = Encrypt(encryptor.val, nonce, AsBytes(h_batches[i]))

\* C2: no key press and no click drained during a tick whose observed process
\* is excluded is in any keys row or clicks row.
C2_NothingOfExcludedPersisted ==
    /\ \A i \in 1..Len(keys) : Range(h_batches[i]) \cap h_excluded.keys = {}
    /\ \A j \in 1..Len(clicks) : clicks[j].x \notin h_excluded.clicks

\* The window step of a tick: the step that leaves "tick", with what it observed
\* in window'.
WindowStep == pcStart = "tick" /\ pcStart' # "tick"

\* C3: a window step that observes an excluded process creates no Process row
\* and no Window row.
C3_ExcludedCreatesNoRows ==
    [][(WindowStep /\ IsSome(window') /\ window'.val.process_name \in ExcludeApps)
          => (processes' = processes /\ windows' = windows)]_vars

C3_Witness ==
    /\ pcStart = "drain"
    /\ IsSome(window) /\ window.val.process_name \in ExcludeApps
    /\ IsSome(current_window)

\* C4: when stop() returns Ok, the pending buffer is empty.
C4_StopLeavesBufferEmpty ==
    [][(pcStop # "returned" /\ pcStop' = "returned" /\ stopResult' = "ok")
          => keystroke_buffer' = <<>>]_vars

\* C5: start() never returns because a row could not be written.
C5_WriteFailureKeepsLoop == ~(pcStart = "returned" /\ startResult = "err_store")

\* What C6 says the window step does: one more Window row, under the Process
\* of the observed name and with the observed title; the rows before it as they
\* were; the current-window pointer at the new row.
C6_Effect ==
    /\ Len(windows') = Len(windows) + 1
    /\ SubSeq(windows', 1, Len(windows)) = windows
    /\ LET row == windows'[Len(windows')]
       IN  /\ \E i \in 1..Len(processes') :
                 /\ processes'[i].name = window'.val.process_name
                 /\ processes'[i].id = row.process_id
           /\ row.title = window'.val.window_title
           /\ current_window' = Some([id |-> row.id, info |-> window'.val])

C6_Changed ==
    /\ WindowStep
    /\ IsSome(window')
    /\ ShouldUpdate(current_window, window'.val)
    /\ window'.val.process_name \notin ExcludeApps

FlushReturnedOk ==
    \/ pcStart = "flush" /\ flushResult' = "ok"
    \/ pcStop = "flush" /\ pcStop' = "returned" /\ stopResult' = "ok"

\* The keys drained since the last successful flush that the loop has taken
\* from its events (the others are still to be appended).
DrainedAndHandled == SubSeq(h_drained, 1, Len(h_drained) - Len(KeysOf(events)))

\* The bytes a keys row holds, decrypted when the monitor has an Encryptor.
PlainOf(row) ==
    IF IsSome(encryptor) THEN Decrypt(encryptor.val, row.encrypted_keys)
    ELSE Ok(row.encrypted_keys)

\* C7: a flush that returns Ok while a window is current writes one keys row
\* for that window, holding all the keys drained since the last successful
\* flush, in order, and leaves the buffer empty.
C7_FlushWritesAllDrained ==
    [][(FlushReturnedOk /\ IsSome(current_window) /\ DrainedAndHandled # <<>>)
          => /\ Len(keys') = Len(keys) + 1
             /\ keys'[Len(keys')].window_id = current_window.val.id
             /\ PlainOf(keys'[Len(keys')]) = Ok(AsBytes(DrainedAndHandled))
             /\ keystroke_buffer' = <<>>]_vars

\* C8: all insert_process calls of one name that return an id return the same
\* id, and after such a call the table holds exactly one row of that name.
C8_InsertProcessIdempotent ==
    \A i \in 1..Len(h_calls) :
        h_calls[i].result.ok =>
            /\ \A j \in 1..Len(h_calls) :
                  (h_calls[j].result.ok /\ h_calls[j].name = h_calls[i].name)
                      => h_calls[j].result.val = h_calls[i].result.val
            /\ Cardinality({r \in 1..Len(processes) :
                               processes[r].name = h_calls[i].name}) = 1
            /\ \E r \in 1..Len(processes) :
                  /\ processes[r].name = h_calls[i].name
                  /\ processes[r].id = h_calls[i].result.val

C8_Witness ==
    \E i, j \in 1..Len(h_calls) :
        /\ i < j
        /\ h_calls[i].result.ok /\ h_calls[j].result.ok
        /\ h_calls[i].name = h_calls[j].name
        /\ h_calls[i].bundle_id # h_calls[j].bundle_id
        /\ Len(processes) = 2

\* C9: every Window row names an existing Process row, every keys row and every
\* clicks row an existing Window row.
C9_ReferentialIntegrity ==
    /\ \A i \in 1..Len(windows) :
          \E p \in 1..Len(processes) : processes[p].id = windows[i].process_id
    /\ \A i \in 1..Len(keys) :
          \E w \in 1..Len(windows) : windows[w].id = keys[i].window_id
    /\ \A i \in 1..Len(clicks) :
          \E w \in 1..Len(windows) : windows[w].id = clicks[i].window_id

C9_Witness ==
    /\ Len(processes) = 2 /\ Len(windows) = 2
    /\ Len(keys) = 1 /\ Len(clicks) = 1
    /\ keys[1].window_id # clicks[1].window_id

\* C10: decrypt of what encrypt returned, by the same Encryptor, is Ok with the
\* plaintext.
C10_RoundTrip == IsSome(enc_result) => enc_result.val = Ok(enc_plain.val)

C10_Witness ==
    /\ IsSome(enc_result)
    /\ Len(enc_plain.val) >= 2
    /\ enc_payload.val # enc_plain.val

C12_ShortInputRejected ==
    (IsSome(dec_call) /\ Len(dec_call.val.input) < NonceLen) => dec_call.val.result = Err

C12_Witness ==
    /\ IsSome(dec_call)
    /\ Len(dec_call.val.input) = NonceLen - 1
    /\ IsSome(enc_payload) /\ dec_call.val.input = SubSeq(enc_payload.val, 1, NonceLen - 1)

\* C13: decrypt of a payload with one nonce, ciphertext or tag byte modified,
\* and of a payload encrypted under another key, returns an error.
C13_TamperedRejected ==
    (IsSome(dec_call) /\ dec_call.val.kind \in {"tampered", "foreign"})
        => dec_call.val.result = Err

\* a ciphertext byte of a payload was modified
C13_Witness ==
    /\ IsSome(dec_call) /\ dec_call.val.kind = "tampered"
    /\ Len(enc_plain.val) >= 2
    /\ dec_call.val.input[NonceLen + 2] # enc_payload.val[NonceLen + 2]

\* C14: whenever no drain is under way, the results the drains returned, one
\* after the other, followed by what is still queued, are the events pushed,
\* in the order they were pushed: each event is returned by one drain, once.
C14_DrainExactlyOnce ==
    drainPc = "idle" => Flatten(h_returned) \o tracker_events = h_pushed

\* two drains each returned an event, the second pushed while the first drain
\* held the lock or after it
C14_Witness ==
    /\ Len(h_returned) >= 2
    /\ h_returned[1] # <<>> /\ h_returned[2] # <<>>
    /\ drainPc = "idle"

\* C15: get_stats on a store with no rows returns zero for the four totals
\* and no most-active process.
C15_EmptyStoreStats ==
    (IsSome(stats) /\ TotalRows = 0) =>
        /\ stats.val.total_keystrokes = 0
        /\ stats.val.total_clicks = 0
        /\ stats.val.total_windows = 0
        /\ stats.val.total_processes = 0
        /\ stats.val.most_active_process = None

C15_Witness == IsSome(stats) /\ TotalRows = 0

\* The number of Window rows of the process with this id.
WindowsOf(id) == Cardinality({w \in 1..Len(windows) : windows[w].process_id = id})

\* C16: what get_stats returns agrees with the tables: the sum of key_count,
\* the three row counts, and the name of a process with the most Window rows,
\* none exactly when there is no Window row.
C16_StatsMatchTables ==
    IsSome(stats) =>
        /\ stats.val.total_keystrokes = SumSeq([k \in 1..Len(keys) |-> keys[k].key_count])
        /\ stats.val.total_clicks = Len(clicks)
        /\ stats.val.total_windows = Len(windows)
        /\ stats.val.total_processes = Len(processes)
        /\ (stats.val.most_active_process = None) <=> (windows = <<>>)
        /\ IsSome(stats.val.most_active_process) =>
               \E p \in 1..Len(processes) :
                  /\ processes[p].name = stats.val.most_active_process.val
                  /\ \A q \in 1..Len(processes) :
                         WindowsOf(processes[q].id) <= WindowsOf(processes[p].id)

\* two processes, the second with more Window rows than the first
C16_Witness ==
    /\ IsSome(stats)
    /\ Len(processes) = 2
    /\ WindowsOf(1) = 1 /\ WindowsOf(2) = 2
    /\ stats.val.most_active_process = Some(processes[2].name)

\* C17: once start_input_tracking has failed, start() has returned that error,
\* no tick was begun and the tables hold no row; once stop_input_tracking has
\* failed, stop() has returned that error.
C17_TrackerFailurePropagates ==
    /\ h_tracking.start = "err" =>
          /\ pcStart = "returned" /\ startResult = "err_tracker"
          /\ ticks = 0
          /\ processes = <<>> /\ windows = <<>> /\ keys = <<>> /\ clicks = <<>>
    /\ h_tracking.stop = "err" =>
          pcStop = "returned" /\ stopResult = "err_tracker"

C17_Witness == h_tracking.start = "err" /\ h_tracking.stop = "err"

\* C18: no monitor exists whose constructor, with encryption enabled, had
\* Encryptor::new fail for the passphrase it was given.
C18_DerivationFailureFatal == h_new # "derive_failed"

\* The loop is in a tick whose get_active_window call failed.
InFailedReadTick == window = None /\ pcStart \in {"drain", "events", "flush"}

\* C19: the window step of a tick whose get_active_window call fails writes
\* no row, leaves the current-window pointer as it was and goes on to the
\* drain; the rest of that tick writes no Process or Window row, leaves the
\* pointer alone, and start() does not return in it.
C19_FailedReadNotFatal ==
    [][/\ (WindowStep /\ window' = None) =>
             /\ pcStart' = "drain"
             /\ processes' = processes /\ windows' = windows
             /\ current_window' = current_window
       /\ InFailedReadTick =>
             /\ pcStart' # "returned"
             /\ processes' = processes /\ windows' = windows
             /\ current_window' = current_window]_vars

\* The clicks the loop has drained and handled: those emitted that are neither
\* in the tracker's queue nor among the drained events still to be handled.
ClicksHandled ==
    (1..produced.clicks) \ (Range(ClicksOf(tracker_events)) \cup Range(ClicksOf(events)))

\* C20: while no row write has failed in start(), the clicks table holds one
\* row for each click drained and handled, whether or not a window was current.
C20_OneRowPerClick ==
    startResult # "err_store" =>
        /\ Len(clicks) = Cardinality(ClicksHandled)
        /\ {clicks[j].x : j \in 1..Len(clicks)} = ClicksHandled

\* C21: the key_count of every keys row is the number of characters of the
\* text it was written from (one character per key press of the model).
C21_KeyCountIsCharacters ==
    \A i \in 1..Len(keys) : keys[i].key_count = Len(h_batches[i])

\* C22: no step changes or removes a Process row that exists.
C22_ProcessRowsImmutable ==
    [][/\ Len(processes') >= Len(processes)
       /\ \A i \in 1..Len(processes) : processes'[i] = processes[i]]_vars

\* insert_process returned an id twice for one name, the second time with
\* another bundle id, and the row still has the first
C22_Witness ==
    \E i, j \in 1..Len(h_calls) :
        /\ i < j
        /\ h_calls[i].result.ok /\ h_calls[j].result.ok
        /\ h_calls[i].name = h_calls[j].name
        /\ h_calls[i].bundle_id # h_calls[j].bundle_id
        /\ \E r \in 1..Len(processes) :
              /\ processes[r].name = h_calls[i].name
              /\ processes[r].bundle_id # h_calls[j].bundle_id

\* start() is in its loop.
InLoop == pcStart \in {"check", "tick", "drain", "events", "flush"}

\* C23: once the running flag is false while start() is in its loop, start()
\* eventually returns.
C23_StopTerminatesLoop == (InLoop /\ ~running) ~> (pcStart = "returned")

\* stop() cleared the flag in the middle of a tick and start() returned Ok
C23_Witness ==
    /\ pcStart = "returned" /\ startResult = "ok"
    /\ ticks >= 1
    /\ h_tracking.stop # "none"
    /\ Len(keys) >= 1

\* C24: a window step that observes a pair other than the recorded one, of an
\* excluded process, leaves the current-window pointer at None.
C24_ExcludedClearsPointer ==
    [][(/\ WindowStep
        /\ IsSome(window')
        /\ ShouldUpdate(current_window, window'.val)
        /\ window'.val.process_name \in ExcludeApps) => current_window' = None]_vars

\* The window step observed the recorded pair.
SamePairObserved ==
    /\ WindowStep
    /\ IsSome(window') /\ IsSome(current_window)
    /\ window'.val.process_name = current_window.val.info.process_name
    /\ window'.val.window_title = current_window.val.info.window_title

\* C25: a window step that observes the recorded pair inserts no Process row
\* and no Window row and leaves the pointer as it was; a Window row is
\* inserted only by a window step that observes another pair.
C25_SamePairNoRows ==
    [][/\ SamePairObserved =>
             /\ processes' = processes /\ windows' = windows
             /\ current_window' = current_window
       /\ windows' # windows =>
             /\ WindowStep /\ IsSome(window')
             /\ ~SamePairObserved]_vars

\* the second tick observed the pair the first tick recorded
C25_Witness ==
    /\ pcStart = "drain" /\ ticks = 2
    /\ IsSome(window) /\ IsSome(current_window)
    /\ window.val = current_window.val.info
    /\ Len(windows) = 1

\* A flush_keystrokes call, by the loop or by stop(), whatever it returns.
FlushStep ==
    \/ pcStart = "flush" /\ pcStart' # "flush"
    \/ pcStop = "flush" /\ pcStop' # "flush"

\* The flush writes the whole buffer, in order, as one row of the current
\* window, and empties it.
WritesBuffer ==
    /\ Len(keys') = Len(keys) + 1
    /\ keys'[Len(keys')].window_id = current_window.val.id
    /\ PlainOf(keys'[Len(keys')]) = Ok(AsBytes(keystroke_buffer))
    /\ keystroke_buffer' = <<>>

\* C26: a flush with no current window writes no row and leaves the buffer;
\* every flush that runs with a current window and a non-empty buffer, so the
\* first one after a window became known, writes the whole buffer.
C26_FirstFlushWritesAll ==
    [][/\ (FlushStep /\ current_window = None) =>
             keys' = keys /\ keystroke_buffer' = keystroke_buffer
       /\ (FlushStep /\ IsSome(current_window) /\ keystroke_buffer # <<>>) =>
             WritesBuffer]_vars

\* C26 as amended: the accumulated text is written by the first flush that
\* succeeds after a window became known.
C26_FirstOkFlushWritesAll ==
    [][/\ (FlushStep /\ current_window = None) =>
             keys' = keys /\ keystroke_buffer' = keystroke_buffer
       /\ (FlushReturnedOk /\ IsSome(current_window) /\ keystroke_buffer # <<>>) =>
             WritesBuffer]_vars

\* key 1 was drained in a first tick that saw an excluded process, so with no
\* window known, and the flush of the second tick, which recorded a window,
\* wrote it
C26_Witness ==
    /\ ticks = 2 /\ Len(windows) = 1
    /\ IsSome(window) /\ IsSome(current_window)
    /\ window.val = current_window.val.info
    /\ h_excluded.keys = {1}
    /\ Len(keys) = 1 /\ 1 \in Range(h_batches[1])

\* The tick bodies begun: ticks counts the passed loop checks, and at "tick"
\* the body of the last one has not begun (interval.tick() is awaited).
TickBodiesBegun == IF pcStart = "tick" THEN ticks - 1 ELSE ticks

\* C27: once the flag is false inside the loop, no loop check passes any
\* more, so the only tick body that can still begin is the one whose check
\* had passed already: at most one.
C27_AtMostOneMoreTick ==
    [][(InLoop /\ ~running) =>
          /\ ticks' = ticks
          /\ TickBodiesBegun' <= ticks
          /\ ticks - TickBodiesBegun \in {0, 1}]_vars

\* stop() cleared the flag after the loop check had passed and before the
\* tick body began
C27_Witness == pcStart = "tick" /\ ~running /\ pcStop # "idle"

\* The rows of processes that carry the name.
RowsNamed(name) == {i \in 1..Len(processes) : processes[i].name = name}

\* C28: when two insert_process calls for the same name race, both return
\* the id of the single row of that name, and the call whose INSERT was
\* ignored returns an error from its read-back only after a second SELECT.
C28_RaceReturnsSingleRow ==
    \A c \in Callers, d \in Callers :
        (/\ c # d
         /\ callPc[c] = "returned" /\ callPc[d] = "returned"
         /\ callName[c] = callName[d])
        => /\ Cardinality(RowsNamed(callName[c].val)) <= 1
           /\ callResult[c].val.ok =>
                 callResult[c].val.val = ProcessIdOf(processes, callName[c].val)
           /\ (~callResult[c].val.ok /\ h_selects[c] > 0) => h_selects[c] = 2

\* The keys in the pending buffer that were captured in a tick before the
\* one in progress: before a tick body has drained the tracker, all of them.
PendingFromEarlierTicks ==
    IF pcStart = "drain" THEN keystroke_buffer ELSE <<>>

\* C29: when the loop task is hard-aborted, no keystroke captured in a tick
\* earlier than the one in progress is still unpersisted.
C29_AbortLosesLastTickOnly ==
    [][pcStart' = "aborted" => PendingFromEarlierTicks = <<>>]_vars

\* A second Encryptor from the same passphrase has decrypted the payload.
SecondDecrypted == IsSome(dec_call) /\ dec_call.val.kind = "second"

Occurrences(ks, k) == Cardinality({i \in 1..Len(ks) : ks[i] = k})

\* The places key k is in: the pending buffer and the keys rows.
Places(k) ==
    Occurrences(keystroke_buffer, k)
      + SumSeq([i \in 1..Len(h_batches) |-> Occurrences(h_batches[i], k)])

\* The KeyPress keys the loop has drained and handled: those produced that
\* are neither in the tracker's queue nor among the drained events still to
\* be handled.
HandledKeys ==
    (1..produced.keys) \ (Range(KeysOf(tracker_events)) \cup Range(KeysOf(events)))

\* C31: with no store failure in start(), whatever the interleaving of the
\* flush of the tick and the flush of stop(), every key drained and handled
\* is in exactly one place, the pending buffer or one keys row, and no other
\* key is anywhere.
C31_KeysConserved ==
    startResult # "err_store" =>
        \A k \in 1..produced.keys : Places(k) = IF k \in HandledKeys THEN 1 ELSE 0

\* stop() flushed two keys into a row while the tick stood at its own flush
C31_Witness ==
    /\ startResult # "err_store"
    /\ taskPc["start"] = "flush" /\ taskPc["stop"] = "returned"
    /\ stopResult = "ok"
    /\ Len(keys) = 1 /\ Len(h_batches[1]) = 2
    /\ keystroke_buffer = <<>>

\* The positions at which a task requests a lock.
LockRequests == {"window", "event", "flush", "flush_window"}

\* flush_keystrokes holds the write guard of the buffer whenever it holds or
\* requests the read guard of current_window, and start() requests the
\* buffer only when it holds no write guard of current_window.
LockOrder ==
    /\ \A t \in Tasks :
          taskPc[t] \in {"flush_window", "flush_insert"} => buffer_lock = t
    /\ window_lock.writer = "start" => taskPc["start"] = "window_held"

\* C32: the loop and a concurrent stop() take the two locks in an order that
\* cannot deadlock, and every lock request is eventually granted.
C32_LocksGranted ==
    /\ []LockOrder
    /\ \A t \in Tasks : (taskPc[t] \in LockRequests) ~> (taskPc[t] \notin LockRequests)

\* stop() waits in flush_keystrokes for the read guard of current_window
\* while the tick holds the write guard
C32_Witness ==
    /\ taskPc["stop"] = "flush_window"
    /\ buffer_lock = "stop"
    /\ window_lock.writer = "start"

\* A flush_keystrokes call returns Err.
FlushFailed ==
    \/ pcStart = "flush" /\ pcStart' # "flush" /\ flushResult' = "err"
    \/ pcStop = "flush" /\ pcStop' # "flush" /\ stopResult' = "err_store"

\* C33: a flush that fails writes no keys row and leaves the pending buffer,
\* which is not empty, as it was, so the next flush finds the same text.
C33_FailedFlushChangesNothing ==
    [][FlushFailed =>
          /\ keys' = keys
          /\ keystroke_buffer # <<>>
          /\ keystroke_buffer' = keystroke_buffer]_vars

\* the flush of a tick has failed with a window known and a key pending: no
\* row, and the key still in the buffer
C33_Witness ==
    /\ pcStart = "check" /\ flushResult = "err"
    /\ IsSome(current_window)
    /\ keystroke_buffer = <<1>>
    /\ keys = <<>>

\* C34: whenever start() has returned, with Ok or with an error, the
\* running flag is false.
C34_ReturnedMeansStopped ==
    pcStart = "returned" => ~running

\* C35: with start() called before stop() returned, start() is not in its
\* loop with the running flag true once stop() has returned: only stop()
\* clears the flag, so a loop in that state has nothing left to end it.
C35_StopEndsLoop ==
    (/\ pcStop = "returned" /\ stopResult = "ok"
     /\ pcStart \in {"check", "tick", "drain", "events", "flush"})
        => ~running

\* What holds of the statistics of any one store state: there is a most
\* active process exactly when there is a window, a window has a process,
\* and a click has a window.
OfOneStoreState(r) ==
    /\ (r.total_windows > 0) <=> (r.most_active_process # None)
    /\ r.total_windows > 0 => r.total_processes > 0
    /\ r.total_clicks > 0 => r.total_windows > 0

\* C36: the values of a get_stats result are those of one store state, also
\* when rows are inserted while get_stats runs.
C36_StatsAreSnapshot ==
    IsSome(stats) => OfOneStoreState(stats.val)

\* C37: once stop() has returned Ok and the loop of start() has exited, the
\* tracker's queue holds no event.
C37_NothingLeftUndrained ==
    (pcStop = "returned" /\ stopResult = "ok" /\ pcStart = "returned" /\ startResult = "ok")
        => tracker_events = <<>>

\* insert_click fails for the MouseClick the loop over the drained events
\* has reached.
ClickWriteFails ==
    /\ pcStart = "events"
    /\ Head(events).type = "MouseClick"
    /\ startResult # "err_store" /\ startResult' = "err_store"

\* C38: when insert_click fails for a click, every KeyPress drained after it
\* in the same batch is still appended to the buffer: it is in the buffer
\* or still among the events the loop goes on to handle.
C38_ClickFailureKeepsKeys ==
    [][ClickWriteFails =>
          \A k \in Range(KeysOf(Tail(events))) :
              \/ k \in Range(keystroke_buffer')
              \/ pcStart' = "events" /\ k \in Range(KeysOf(events'))]_vars

====
